---- MODULE Spec2Model ----
(***************************************************************************)
(* Model of the atreugo request-dispatch layer: route registration on      *)
(* Router (router.go) and Atreugo (atreugo.go), Go slice semantics of the  *)
(* middleware lists, the per-request dispatcher built by handler(), the    *)
(* timeout wrapper, and the server lifecycle of New, Serve and             *)
(* ServeGracefully.                                                        *)
(***************************************************************************)
EXTENDS Integers, Sequences, FiniteSets, TLC

\* ------------------------------------------------------------------ bounds
MaxBefore == 3      \* longest global before-list of the Router
MaxAfter  == 1      \* longest global after-list of the Router
MaxSrv    == 1      \* longest global list of the Atreugo server
MaxFns    == 1      \* most middlewares passed to one UseBefore / UseAfter call
MaxRoutes == 2      \* most routes registered before serving starts

\* ------------------------------------------------------- program constants
StatusOK                  == 200
StatusInternalServerError == 500
StatusRequestTimeout      == 408

\* ---------------------------------------------------------------- strings
\* An HTTP method is a sequence of characters.
UpperChar == [c \in {"G", "E", "T", "g", "e", "t"} |->
                CASE c = "g" -> "G" [] c = "e" -> "E" [] c = "t" -> "T" [] OTHER -> c]

ToUpper(s) == [i \in 1..Len(s) |-> UpperChar[s[i]]]

Methods == {<<"G", "E", "T">>, <<"g", "e", "t">>, <<"G", "e", "t">>}

\* ------------------------------------------------------------ middlewares
NoFn == "nil"
GlobalBeforeFns == <<"gb1", "gb2", "gb3", "gb4">>
GlobalAfterFns  == <<"ga1", "ga2", "ga3", "ga4">>
Middlewares == {"gb1", "gb2", "gb3", "gb4", "ga1", "ga2", "ga3", "ga4", "fb1", "fa1"}

\* What a middleware returns: (statusCode, nil) on success, (statusCode, err) on failure.
OkCode(m)  == IF m \in {"gb2", "ga1", "fb1"} THEN 202 ELSE 0
ErrCode(m) == IF m \in {"gb1", "ga1", "fa1"} THEN 403 ELSE 400
ErrMsg(m)  == "error of " \o m

\* --------------------------------------------------------------- Go slices
\* A slice is a window [arr, len] on a backing array of the heap; arr = 0 is nil.
NilSlice == [arr |-> 0, len |-> 0]

Cap(h, s)   == IF s.arr = 0 THEN 0 ELSE Len(h[s.arr])
Elems(h, s) == IF s.arr = 0 THEN <<>> ELSE SubSeq(h[s.arr], 1, s.len)

\* Capacity the runtime picks when append has to grow (pointer-sized elements).
RoundUp(n) == IF n <= 4 THEN n ELSE n + (n % 2)
GrowCap(old, need) == RoundUp(IF need > 2 * old THEN need ELSE 2 * old)

\* append(s, xs...): writes in place when the capacity allows, else reallocates.
append(h, s, xs) ==
    LET need == s.len + Len(xs) IN
    IF Len(xs) = 0 THEN [heap |-> h, slice |-> s]
    ELSE IF need <= Cap(h, s)
    THEN [heap  |-> [h EXCEPT ![s.arr] =
                        [i \in 1..Len(@) |-> IF i > s.len /\ i <= need
                                             THEN xs[i - s.len] ELSE @[i]]],
          slice |-> [arr |-> s.arr, len |-> need]]
    ELSE [heap  |-> h \o << [i \in 1..GrowCap(Cap(h, s), need) |->
                                IF i <= s.len THEN h[s.arr][i]
                                ELSE IF i <= need THEN xs[i - s.len] ELSE NoFn] >>,
          slice |-> [arr |-> Len(h) + 1, len |-> need]]

\* ------------------------------------------------------- caller's Filters
\* Backing arrays the application allocated for its Filters values.
CallerHeap == << <<"fb1">>, <<"fa1", NoFn>>, <<"gb1">> >>

emptyFilters == [Before |-> NilSlice, After |-> NilSlice]
FiltersA     == [Before |-> [arr |-> 1, len |-> 1], After |-> [arr |-> 2, len |-> 1]]
FiltersB     == [Before |-> [arr |-> 3, len |-> 1], After |-> NilSlice]
FiltersInputs == {emptyFilters, FiltersA, FiltersB}

Owners   == {"srv", "root", "group"}
Routers  == {"root", "group"}
Requests == {"q1", "q2"}

\* ------------------------------------------------------- listener addresses
\* A string is a sequence of characters.
DigitChars == <<"0", "1", "2", "3", "4", "5", "6", "7", "8", "9">>

HasChar(s, c) == \E i \in 1..Len(s) : s[i] = c

\* strings.Split(s, sep): the substrings between the separators.
RECURSIVE Split(_, _)
Split(s, sep) ==
    IF ~HasChar(s, sep) THEN <<s>>
    ELSE LET i == CHOOSE k \in 1..Len(s) : s[k] = sep /\ ~HasChar(SubSeq(s, 1, k - 1), sep)
         IN  <<SubSeq(s, 1, i - 1)>> \o Split(SubSeq(s, i + 1, Len(s)), sep)

DigitVal(c) == (CHOOSE k \in 1..Len(DigitChars) : DigitChars[k] = c) - 1

RECURSIVE DecimalVal(_)
DecimalVal(s) ==
    IF s = <<>> THEN 0 ELSE 10 * DecimalVal(SubSeq(s, 1, Len(s) - 1)) + DigitVal(s[Len(s)])

\* strconv.Atoi(s): the value of a decimal string; 0 with an error for anything else.
Atoi(s) ==
    IF s = <<>> \/ \E i \in 1..Len(s) : ~HasChar(DigitChars, s[i])
    THEN [val |-> 0, err |-> TRUE]
    ELSE [val |-> DecimalVal(s), err |-> FALSE]

RECURSIVE Itoa(_)
Itoa(n) == IF n < 10 THEN <<DigitChars[n + 1]>>
           ELSE Itoa(n \div 10) \o <<DigitChars[(n % 10) + 1]>>

\* fmt.Sprintf("%s:%d", host, port)
HostColonPort(host, port) == host \o <<":">> \o Itoa(port)

\* ln.Addr().String(): host:port for a TCP address, with the host in brackets when
\* it holds a colon (IPv6); the path alone for a Unix socket.
AddrString(l) ==
    IF l.network = "unix" THEN l.host
    ELSE IF HasChar(l.host, ":") THEN <<"[">> \o l.host \o <<"]">> \o <<":">> \o Itoa(l.port)
    ELSE HostColonPort(l.host, l.port)

NoListener == [network |-> "none", host |-> <<>>, port |-> 0]
ListenerV4   == [network |-> "tcp",  host |-> <<"h">>,           port |-> 80]
ListenerV6   == [network |-> "tcp",  host |-> <<":", ":", "1">>, port |-> 80]
ListenerUnix == [network |-> "unix", host |-> <<"/", "s">>,      port |-> 0]
Listeners == {ListenerV4, ListenerV6, ListenerUnix}

\* The port the system picks when the configuration asks for port 0.
EphemeralPort == 81

\* s.getListener(): a TCP listener bound to the configured host and port.
getListener(host, port) ==
    [network |-> "tcp", host |-> host, port |-> IF port = 0 THEN EphemeralPort ELSE port]

\* ---------------------------------------------------------- configuration
StatusTooManyRequests == 429
defaultReadTimeout    == 20
DefaultConcurrency    == 262144     \* fasthttp's cap when Server.Concurrency is 0

\* Config values the application passes to New.
Config(gs, rt, port, conc) ==
    [GracefulShutdown |-> gs, ReadTimeout |-> rt, Host |-> <<"h">>, Port |-> port,
     Concurrency |-> conc]

DefaultCfg == Config(FALSE, 0, 80, 0)
CfgInputs  == {Config(gs, rt, 80, 0) : gs \in BOOLEAN, rt \in {-1, 0, 7}}
                 \cup {Config(FALSE, 0, 0, 0)}

\* New(cfg), atreugo.go:33-35: graceful shutdown without a read timeout gets the default.
NewReadTimeout_Unset(c) == c.ReadTimeout

NewReadTimeout(c) ==
    IF c.GracefulShutdown /\ c.ReadTimeout <= 0 THEN defaultReadTimeout ELSE c.ReadTimeout

\* New(cfg): the configuration as New leaves it, and the engine built from it.
New(c) ==
    LET c2 == [c EXCEPT !.ReadTimeout = NewReadTimeout(c)] IN
    [cfg    |-> c2,
     server |-> [ReadTimeout |-> c2.ReadTimeout, Concurrency |-> c2.Concurrency]]

VARIABLES
    heap,     \* backing arrays of all middleware slices
    lists,    \* owner -> [before, after]: beforeMiddlewares / afterMiddlewares
    routes,   \* routes held by the external router, in registration order
    phase,    \* "setup", "serving", "draining", "stopped"; "fault" (a registration
              \* panicked), "crashed" (a dispatcher panicked)
    req,      \* request -> state of its dispatcher
    pool,     \* RequestCtx objects lying in the pool
    bound,    \* RequestCtx object -> request it is bound to, or "none"
    nalloc,   \* RequestCtx objects allocated so far
    slots,    \* wrapped dispatchers running under a timeout wrapper (concurrencyCh)
    groups,   \* group routers created by NewGroupPath
    cfg,      \* *Config the server was built from
    server,   \* fields of the fasthttp.Server: ReadTimeout, Concurrency
    lnAddr,   \* s.lnAddr, the recorded listen address
    ln,       \* the listener handed to Serve / ServeGracefully, or NoListener
    listenErr, \* channel listenErr of ServeGracefully (buffer of one)
    osSignals, \* channel osSignals of ServeGracefully (buffer of one)
    pc,       \* position of the main goroutine and of the serve task
    result,   \* what Serve / ServeGracefully returned, or "running"
    shutdowns, \* calls of s.server.Shutdown() so far
    first,    \* which of the two events ServeGracefully waits for happened first
    atSignal, \* requests that were in flight when the first signal arrived
    input,    \* the Config value the application passed to New
    served    \* what s.Serve(ln) returned to the serve task, or "none"

lifeVars == <<cfg, server, lnAddr, ln, listenErr, osSignals, pc, result, shutdowns,
              first, atSignal, input, served>>
vars == <<heap, lists, routes, phase, req, pool, bound, nalloc, slots, groups, lifeVars>>
setupVars == <<heap, lists, routes>>
serveVars == <<req, pool, bound, nalloc>>
\* ------------------------------------------------------------------- Init
NoReq == [pc |-> "idle", route |-> 0, ctx |-> 0, statusCode |-> 0, err |-> "nil",
          log |-> <<>>,
          resp |-> [status |-> StatusOK, body |-> "", hdr |-> {}],
          answered |-> FALSE, caller |-> [status |-> 0, body |-> ""],
          acquired |-> 0, released |-> 0, errWrites |-> 0]

InitDispatch ==
    /\ heap = CallerHeap
    /\ lists = [o \in Owners |-> [before |-> NilSlice, after |-> NilSlice]]
    /\ routes = <<>>
    /\ phase = "setup"
    /\ req = [q \in Requests |-> NoReq]
    /\ pool = {}
    /\ bound = [c \in 1..Cardinality(Requests) |-> "none"]
    /\ nalloc = 0
    /\ slots = 0
    /\ groups = {}

\* The server New(c) returns; nothing is listening yet.
InitLife(c) ==
    /\ cfg = New(c).cfg
    /\ server = New(c).server
    /\ lnAddr = <<>>
    /\ ln = NoListener
    /\ listenErr = <<>>
    /\ osSignals = <<>>
    /\ pc = [main |-> "init", task |-> "none"]
    /\ result = "running"
    /\ shutdowns = 0
    /\ first = "none"
    /\ atSignal = {}
    /\ input = c
    /\ served = "none"

Init == InitDispatch /\ InitLife(DefaultCfg)

\* ------------------------------------------------------ garbage collection
\* Backing arrays no slice refers to any more are collected; the surviving
\* ones are numbered in the order the program's references reach them.
RECURSIVE Dedup(_, _)
Dedup(seq, seen) ==
    IF seq = <<>> THEN <<>>
    ELSE IF Head(seq) \in seen THEN Dedup(Tail(seq), seen)
    ELSE <<Head(seq)>> \o Dedup(Tail(seq), seen \cup {Head(seq)})

RECURSIVE RouteRefs(_)
RouteRefs(rs) ==
    IF rs = <<>> THEN <<>>
    ELSE <<Head(rs).before.arr, Head(rs).after.arr>> \o RouteRefs(Tail(rs))

Live(l, rs) ==
    Dedup([i \in 1..Len(CallerHeap) |-> i]
            \o <<l["root"].before.arr, l["root"].after.arr,
                 l["srv"].before.arr, l["srv"].after.arr,
                 l["group"].before.arr, l["group"].after.arr>>
            \o RouteRefs(rs), {0})

Collect(h, l, rs) ==
    LET live   == Live(l, rs)
        to(a)  == IF a = 0 THEN 0 ELSE CHOOSE i \in 1..Len(live) : live[i] = a
        mv(sl) == [arr |-> to(sl.arr), len |-> sl.len]
    IN  [heap   |-> [i \in 1..Len(live) |-> h[live[i]]],
         lists  |-> [o \in Owners |-> [before |-> mv(l[o].before), after |-> mv(l[o].after)]],
         routes |-> [i \in 1..Len(rs) |->
                        [rs[i] EXCEPT !.before = mv(@), !.after = mv(@)]]]

Store(h, l, rs) ==
    LET c == Collect(h, l, rs) IN
    /\ heap' = c.heap
    /\ lists' = c.lists
    /\ routes' = c.routes

\* ----------------------------------------------------------- registration
\* UseBefore / UseAfter of Router and of Atreugo: append to the owner's list.
UseBeforeOn(o, fns) ==
    LET r == append(heap, lists[o].before, fns) IN
    /\ phase = "setup"
    /\ Store(r.heap, [lists EXCEPT ![o].before = r.slice], routes)
    /\ UNCHANGED <<phase, serveVars, slots, groups, lifeVars>>

UseAfterOn(o, fns) ==
    LET r == append(heap, lists[o].after, fns) IN
    /\ phase = "setup"
    /\ Store(r.heap, [lists EXCEPT ![o].after = r.slice], routes)
    /\ UNCHANGED <<phase, serveVars, slots, groups, lifeVars>>

\* The callers register the next middlewares of a fixed catalogue, 1..MaxFns at a time.
NextFns(catalogue, s, k) == SubSeq(catalogue, s.len + 1, s.len + k)

RouterUseBefore ==
    \E k \in 1..MaxFns :
        /\ lists["root"].before.len + k <= MaxBefore
        /\ UseBeforeOn("root", NextFns(GlobalBeforeFns, lists["root"].before, k))

RouterUseAfter ==
    \E k \in 1..MaxFns :
        /\ lists["root"].after.len + k <= MaxAfter
        /\ UseAfterOn("root", NextFns(GlobalAfterFns, lists["root"].after, k))

AtreugoUseBefore ==
    \E k \in 1..MaxFns :
        /\ lists["srv"].before.len + k <= MaxSrv
        /\ UseBeforeOn("srv", NextFns(GlobalBeforeFns, lists["srv"].before, k))

AtreugoUseAfter ==
    \E k \in 1..MaxFns :
        /\ lists["srv"].after.len + k <= MaxSrv
        /\ UseAfterOn("srv", NextFns(GlobalAfterFns, lists["srv"].after, k))

\* r.handler(viewFn, filters) on Router r: the two chains are built once, at
\* registration, from r's own lists. gBefore, gAfter, fBefore, fAfter keep the values
\* the call was made with, rootBefore and rootAfter the lists of the root router then.
handler(r, h, viewFn, filters) ==
    LET b == append(h, lists[r].before, Elems(h, filters.Before))
        a == append(b.heap, filters.After, Elems(b.heap, lists[r].after))
    IN  [heap |-> a.heap,
         fn   |-> [owner |-> r, view |-> viewFn, before |-> b.slice, after |-> a.slice,
                   gBefore |-> Elems(h, lists[r].before),
                   gAfter  |-> Elems(h, lists[r].after),
                   fBefore |-> Elems(h, filters.Before),
                   fAfter  |-> Elems(h, filters.After),
                   rootBefore |-> Elems(h, lists["root"].before),
                   rootAfter  |-> Elems(h, lists["root"].after)]]

\* Atreugo.handler(viewFn): the chains are read from the server at request time.
atreugoHandler(viewFn) ==
    [owner |-> "srv", view |-> viewFn, before |-> NilSlice, after |-> NilSlice,
     gBefore |-> <<>>, gAfter |-> <<>>, fBefore |-> <<>>, fAfter |-> <<>>,
     rootBefore |-> <<>>, rootAfter |-> <<>>]

\* fasthttp.TimeoutHandler / TimeoutWithCodeHandler around a dispatcher.
Plain(fn)              == fn @@ [wrap |-> "none", tcode |-> 0]
TimeoutWrap(fn, code)  == fn @@ [wrap |-> "timeout", tcode |-> code]

\* router.Handle(method, url, handler) of the external router; every registration
\* names a path of its own, so the table is the sequence of the registered routes.
Handle(httpMethod, hd) ==
    [routes |-> routes \o << hd @@ [method |-> httpMethod] >>, phase |-> phase]

\* Router.addRoute: panics unless the method is upper-case.
addRoute(httpMethod, hd) ==
    IF httpMethod # ToUpper(httpMethod)
    THEN [routes |-> routes, phase |-> "fault"]
    ELSE Handle(httpMethod, hd)

CanRegister == phase = "setup" /\ pc.main = "init" /\ Len(routes) < MaxRoutes

\* The registration call returned (or panicked): its effects on the program state.
Registered(h, res) ==
    /\ Store(h, lists, res.routes)
    /\ phase' = res.phase
    /\ UNCHANGED <<serveVars, slots, groups, lifeVars>>

RouterPathWithFilters(r, httpMethod, viewFn, filters) ==
    LET hd == handler(r, heap, viewFn, filters) IN
    /\ CanRegister
    /\ r \in {"root"} \cup groups
    /\ Registered(hd.heap, addRoute(httpMethod, Plain(hd.fn)))

RouterPath(r, httpMethod, viewFn) == RouterPathWithFilters(r, httpMethod, viewFn, emptyFilters)

RouterTimeoutPathWithFilters(r, httpMethod, viewFn, filters) ==
    LET hd == handler(r, heap, viewFn, filters) IN
    /\ CanRegister
    /\ r \in {"root"} \cup groups
    /\ Registered(hd.heap,
                  addRoute(httpMethod, TimeoutWrap(hd.fn, StatusRequestTimeout)))

RouterTimeoutPath(r, httpMethod, viewFn) ==
    RouterTimeoutPathWithFilters(r, httpMethod, viewFn, emptyFilters)

RouterTimeoutWithCodePathWithFilters(r, httpMethod, viewFn, filters, statusCode) ==
    LET hd == handler(r, heap, viewFn, filters) IN
    /\ CanRegister
    /\ r \in {"root"} \cup groups
    /\ Registered(hd.heap,
                  addRoute(httpMethod, TimeoutWrap(hd.fn, statusCode)))

RouterTimeoutWithCodePath(r, httpMethod, viewFn, statusCode) ==
    RouterTimeoutWithCodePathWithFilters(r, httpMethod, viewFn, emptyFilters, statusCode)

RouterNetHTTPPathWithFilters(r, httpMethod, filters) ==
    LET hd == handler(r, heap, "nethttp", filters) IN
    /\ CanRegister
    /\ r \in {"root"} \cup groups
    /\ Registered(hd.heap,
                  addRoute(httpMethod, Plain(hd.fn)))

RouterNetHTTPPath(r, httpMethod) == RouterNetHTTPPathWithFilters(r, httpMethod, emptyFilters)

AtreugoPath(httpMethod, viewFn) ==
    /\ CanRegister
    /\ Registered(heap,
                  IF httpMethod # ToUpper(httpMethod)
                  THEN [routes |-> routes, phase |-> "fault"]
                  ELSE Handle(httpMethod, Plain(atreugoHandler(viewFn))))

AtreugoTimeoutPath(httpMethod, viewFn) ==
    /\ CanRegister
    /\ Registered(heap,
                  IF httpMethod # ToUpper(httpMethod)
                  THEN [routes |-> routes, phase |-> "fault"]
                  ELSE Handle(httpMethod, TimeoutWrap(atreugoHandler(viewFn), StatusRequestTimeout)))

AtreugoNetHTTPPath(httpMethod) ==
    /\ CanRegister
    /\ Registered(heap,
                  Handle(httpMethod, Plain(atreugoHandler("nethttp"))))

\* r.NewGroupPath(path) on the root router, router.go:25-31: a new Router that shares
\* the log and the routing table (under the path) and starts with empty lists.
NewGroupPath ==
    /\ phase = "setup"
    /\ pc.main = "init"
    /\ "group" \notin groups
    /\ groups' = groups \cup {"group"}
    /\ Store(heap, [lists EXCEPT !["group"] = [before |-> NilSlice, after |-> NilSlice]],
             routes)
    /\ UNCHANGED <<phase, serveVars, slots, lifeVars>>

\* ListenAndServe: registration is over, requests are dispatched from now on.
StartServe ==
    /\ phase = "setup"
    /\ phase' = "serving"
    /\ UNCHANGED <<heap, lists, routes, serveVars, slots, groups, lifeVars>>

\* ------------------------------------------------------------ RequestCtx pool
acquireRequestCtx_AnyObject(q) ==
    \E c \in 1..(nalloc + 1) :
        /\ c <= Cardinality(Requests)
        /\ pool' = pool \ {c}
        /\ nalloc' = IF c <= nalloc THEN nalloc ELSE nalloc + 1
        /\ bound' = [bound EXCEPT ![c] = q]
        /\ req' = [req EXCEPT ![q].ctx = c, ![q].acquired = @ + 1, ![q].pc = "before"]

\* acquireRequestCtx: a pooled object when the pool hands one out, else a new one.
acquireRequestCtx(q) ==
    \E c \in pool \cup {nalloc + 1} :
        /\ pool' = pool \ {c}
        /\ nalloc' = IF c \in pool THEN nalloc ELSE nalloc + 1
        /\ bound' = [bound EXCEPT ![c] = q]
        /\ req' = [req EXCEPT ![q].ctx = c, ![q].acquired = @ + 1, ![q].pc = "before"]

\* releaseRequestCtx: detach the request's handle and put the object back.
releaseRequestCtx(c) ==
    /\ bound' = [bound EXCEPT ![c] = "none"]
    /\ pool' = pool \cup {c}
    /\ UNCHANGED nalloc

\* --------------------------------------------------------------- dispatcher
Outcomes == {"ok", "err", "panic"}

\* The chains a route's dispatcher runs: Router.handler captured its slices at
\* registration, Atreugo.handler reads the server's lists on every request.
BeforeChain(rt) ==
    IF rt.owner = "srv" THEN Elems(heap, lists["srv"].before) ELSE Elems(heap, rt.before)

AfterChain(rt) ==
    IF rt.owner = "srv" THEN Elems(heap, lists["srv"].after) ELSE Elems(heap, rt.after)

\* execMiddlewares(ctx, fns) where the middleware at position k is the first not to
\* return a nil error (k = 0: none) and ends as `how` ("err" or "panic").
RECURSIVE execFrom(_, _, _, _, _)
execFrom(stage, fns, k, how, i) ==
    IF i > Len(fns)
    THEN [statusCode |-> 0, err |-> "nil", panic |-> FALSE, ran |-> <<>>]
    ELSE IF i = k /\ how = "panic"
    THEN [statusCode |-> 0, err |-> "nil", panic |-> TRUE,
          ran |-> << [stage |-> stage, fn |-> fns[i], code |-> 0, err |-> "panic"] >>]
    ELSE IF i = k
    THEN [statusCode |-> ErrCode(fns[i]), err |-> ErrMsg(fns[i]), panic |-> FALSE,
          ran |-> << [stage |-> stage, fn |-> fns[i], code |-> ErrCode(fns[i]),
                      err |-> ErrMsg(fns[i])] >>]
    ELSE LET r == execFrom(stage, fns, k, how, i + 1) IN
         [r EXCEPT !.ran = << [stage |-> stage, fn |-> fns[i], code |-> OkCode(fns[i]),
                               err |-> "nil"] >> \o @]

execMiddlewares(stage, fns, k, how) == execFrom(stage, fns, k, how, 1)

\* Headers the middlewares that returned normally have set on the response.
HdrOf(ran) == {ran[i].fn : i \in {j \in 1..Len(ran) : ran[j].err = "nil"}}

\* ctx.Error(msg, statusCode): resets the response, then sets status and body.
CtxError(msg, statusCode) == [status |-> statusCode, body |-> msg, hdr |-> {}]

\* The engine accepts connections; dispatchers already started run on while it drains.
Serving == phase = "serving"
Alive   == phase \in {"serving", "draining", "stopped"}

TimeoutMsg == "timeout"

\* The timeout wrapper's `select { case concurrencyCh <- struct{}{}: ... default: 429 }`.
Admit_Always(n, cap) == TRUE

Admit(n, cap) == n < cap

ConcurrencyCap == IF server.Concurrency = 0 THEN DefaultConcurrency ELSE server.Concurrency

\* What the caller holds once the dispatcher has returned: the dispatcher's response,
\* unless the timeout wrapper has answered before.
Answer_Overwrite(answered, caller, resp) == [status |-> resp.status, body |-> resp.body]

Answer(answered, caller, resp) ==
    IF answered THEN caller ELSE [status |-> resp.status, body |-> resp.body]

\* router.go:55: `if statusCode, err = execMiddlewares(actx, before); err == nil`
BeforeNext_IgnoreErr(r) == "view"

BeforeNext_SkipView(r) == IF r.err = "nil" THEN "after" ELSE "finish"

BeforeNext(r) == IF r.err = "nil" THEN "view" ELSE "finish"

\* router.go:56-60: `if err = viewFn(actx); err != nil { statusCode = 500 } else { after }`
ViewResult_KeepStatus(o, statusCode) ==
    [pc         |-> CASE o = "ok" -> "after" [] o = "err" -> "finish" [] OTHER -> "panicked",
     err        |-> IF o = "err" THEN "boom" ELSE "nil",
     statusCode |-> IF o = "err" THEN 404 ELSE statusCode]

ViewResult_BackToBefore(o, statusCode) ==
    [pc         |-> CASE o = "ok" -> "before" [] o = "err" -> "finish" [] OTHER -> "panicked",
     err        |-> IF o = "err" THEN "boom" ELSE "nil",
     statusCode |-> IF o = "err" THEN StatusInternalServerError ELSE statusCode]

ViewResult(o, statusCode) ==
    [pc         |-> CASE o = "ok" -> "after" [] o = "err" -> "finish" [] OTHER -> "panicked",
     err        |-> IF o = "err" THEN "boom" ELSE "nil",
     statusCode |-> IF o = "err" THEN StatusInternalServerError ELSE statusCode]

\* router.go:59: `statusCode, err = execMiddlewares(actx, after)`
AfterResult_Discard(r) == [statusCode |-> 0, err |-> "nil"]

AfterResult(r) == [statusCode |-> r.statusCode, err |-> r.err]

\* router.go:63-66: `if err != nil { r.log.Error(err); actx.Error(err.Error(), statusCode) }`
FinalResp_KeepBody(err, statusCode, resp) ==
    IF err # "nil" THEN [resp EXCEPT !.status = statusCode] ELSE resp

FinalResp_AlwaysWrite(err, statusCode, resp) == CtxError(err, statusCode)

FinalResp(err, statusCode, resp) ==
    IF err # "nil" THEN CtxError(err, statusCode) ELSE resp

\* The router matched the request to route i and calls its handler.
\* A timeout wrapper first takes a slot of the engine's concurrency channel; with
\* none free it answers StatusTooManyRequests and does not call the dispatcher.
Arrive(q, i) ==
    /\ Serving
    /\ req[q].pc = "idle"
    /\ IF routes[i].wrap = "timeout" /\ ~Admit(slots, ConcurrencyCap)
       THEN /\ req' = [req EXCEPT ![q].pc = "rejected", ![q].route = i,
                                  ![q].answered = TRUE,
                                  ![q].caller = [status |-> StatusTooManyRequests,
                                                 body |-> TimeoutMsg]]
            /\ UNCHANGED slots
       ELSE /\ req' = [req EXCEPT ![q].pc = "start", ![q].route = i]
            /\ slots' = IF routes[i].wrap = "timeout" THEN slots + 1 ELSE slots
    /\ UNCHANGED <<setupVars, phase, pool, bound, nalloc, groups, lifeVars>>

\* router.go:46 / atreugo.go:89
Acquire(q) ==
    /\ Alive
    /\ req[q].pc = "start"
    /\ acquireRequestCtx(q)
    /\ UNCHANGED <<setupVars, phase, slots, groups, lifeVars>>

\* router.go:55 / atreugo.go:98: the before-chain
Before(q) ==
    /\ Alive
    /\ req[q].pc = "before"
    /\ \E k \in 0..Len(BeforeChain(routes[req[q].route])), how \in {"err", "panic"} :
          LET chain == BeforeChain(routes[req[q].route])
              r     == execMiddlewares("before", chain, k, how)
          IN  /\ req' = [req EXCEPT ![q].pc = IF r.panic THEN "panicked" ELSE BeforeNext(r),
                                    ![q].statusCode = r.statusCode,
                                    ![q].err = r.err,
                                    ![q].log = @ \o r.ran,
                                    ![q].resp.hdr = @ \cup HdrOf(r.ran)]
              /\ phase' = IF r.panic THEN "crashed" ELSE phase
    /\ UNCHANGED <<setupVars, pool, bound, nalloc, slots, groups, lifeVars>>

\* router.go:56-57 / atreugo.go:99-100: the view
View(q) ==
    /\ Alive
    /\ req[q].pc = "view"
    /\ \E o \in (IF routes[req[q].route].view = "nethttp" THEN {"ok"} ELSE Outcomes) :
          /\ req' = [req EXCEPT
                ![q].pc = ViewResult(o, req[q].statusCode).pc,
                ![q].err = ViewResult(o, req[q].statusCode).err,
                ![q].statusCode = ViewResult(o, req[q].statusCode).statusCode,
                ![q].log = @ \o << [stage |-> "view", fn |-> "view", code |-> 0,
                                    err |-> CASE o = "ok" -> "nil" [] o = "err" -> "boom"
                                                 [] OTHER -> "panic"] >>,
                ![q].resp = CASE o = "ok"  -> [@ EXCEPT !.body = "ok"]
                              [] o = "err" -> [@ EXCEPT !.status = 404, !.body = "partial"]
                              [] OTHER     -> @]
          /\ phase' = IF o = "panic" THEN "crashed" ELSE phase
    /\ UNCHANGED <<setupVars, pool, bound, nalloc, slots, groups, lifeVars>>

\* router.go:59 / atreugo.go:102: the after-chain
After(q) ==
    /\ Alive
    /\ req[q].pc = "after"
    /\ \E k \in 0..Len(AfterChain(routes[req[q].route])), how \in {"err", "panic"} :
          LET chain == AfterChain(routes[req[q].route])
              r     == execMiddlewares("after", chain, k, how)
          IN  /\ req' = [req EXCEPT ![q].pc = IF r.panic THEN "panicked" ELSE "finish",
                                    ![q].statusCode = AfterResult(r).statusCode,
                                    ![q].err = AfterResult(r).err,
                                    ![q].log = @ \o r.ran,
                                    ![q].resp.hdr = @ \cup HdrOf(r.ran)]
              /\ phase' = IF r.panic THEN "crashed" ELSE phase
    /\ UNCHANGED <<setupVars, pool, bound, nalloc, slots, groups, lifeVars>>

\* router.go:63-68 / atreugo.go:106-111: error response, release; the caller gets the
\* dispatcher's response unless a timeout wrapper has already answered.
Finish(q) ==
    /\ Alive
    /\ req[q].pc = "finish"
    /\ LET resp == FinalResp(req[q].err, req[q].statusCode, req[q].resp)
       IN  req' = [req EXCEPT ![q].pc = "done",
                              ![q].resp = resp,
                              ![q].errWrites = IF req[q].err # "nil" THEN @ + 1 ELSE @,
                              ![q].released = @ + 1,
                              ![q].answered = TRUE,
                              ![q].caller = Answer(req[q].answered, @, resp)]
    /\ releaseRequestCtx(req[q].ctx)
    /\ slots' = IF routes[req[q].route].wrap = "timeout" THEN slots - 1 ELSE slots
    /\ UNCHANGED <<setupVars, phase, groups, lifeVars>>

\* fasthttp.TimeoutHandler: the duration elapsed before the dispatcher completed.
Timeout_Cancels(q) ==
    /\ Alive
    /\ req[q].pc \in {"start", "before", "view", "after", "finish"}
    /\ routes[req[q].route].wrap = "timeout"
    /\ ~req[q].answered
    /\ req' = [req EXCEPT ![q].answered = TRUE, ![q].pc = "cancelled",
                          ![q].caller = [status |-> routes[req[q].route].tcode,
                                         body |-> TimeoutMsg]]
    /\ UNCHANGED <<setupVars, phase, pool, bound, nalloc, slots, groups, lifeVars>>

Timeout(q) ==
    /\ Alive
    /\ req[q].pc \in {"start", "before", "view", "after", "finish"}
    /\ routes[req[q].route].wrap = "timeout"
    /\ ~req[q].answered
    /\ req' = [req EXCEPT ![q].answered = TRUE,
                          ![q].caller = [status |-> routes[req[q].route].tcode,
                                         body |-> TimeoutMsg]]
    /\ UNCHANGED <<setupVars, phase, pool, bound, nalloc, slots, groups, lifeVars>>

\* The steps of the dispatcher router.go:45-69 returns, run by one goroutine.
DispatcherStep(q) ==
    \/ Acquire(q)
    \/ Before(q)
    \/ View(q)
    \/ After(q)
    \/ Finish(q)

Dispatch(q) ==
    \/ \E i \in 1..Len(routes) : Arrive(q, i)
    \/ DispatcherStep(q)
    \/ Timeout(q)

TimeoutCodes == {504}

RegisterRouter ==
    \E m \in Methods :
        \/ RouterPath("root", m, "view")
        \/ \E f \in FiltersInputs : RouterPathWithFilters("root", m, "view", f)
        \/ RouterTimeoutPath("root", m, "view")
        \/ \E f \in FiltersInputs : RouterTimeoutPathWithFilters("root", m, "view", f)
        \/ \E c \in TimeoutCodes : RouterTimeoutWithCodePath("root", m, "view", c)
        \/ \E f \in FiltersInputs, c \in TimeoutCodes :
                RouterTimeoutWithCodePathWithFilters("root", m, "view", f, c)
        \/ RouterNetHTTPPath("root", m)
        \/ \E f \in FiltersInputs : RouterNetHTTPPathWithFilters("root", m, f)

\* ----------------------------------------------------------------- lifecycle
\* The main goroutine is at "init" until it calls ListenAndServe, Serve or
\* ServeGracefully; the serve task is the goroutine of atreugo.go:168-170.
Open(q) == req[q].pc # "idle" /\ ~req[q].answered

\* atreugo.go:274-286
ListenAndServe ==
    /\ phase = "setup"
    /\ pc.main = "init"
    /\ lnAddr' = HostColonPort(cfg.Host, cfg.Port)
    /\ \E ok \in BOOLEAN :
          IF ok
          THEN /\ ln' = getListener(cfg.Host, cfg.Port)
               /\ pc' = [pc EXCEPT !.main = IF cfg.GracefulShutdown THEN "graceful" ELSE "serve"]
               /\ UNCHANGED result
          ELSE /\ pc' = [pc EXCEPT !.main = "returned"]
               /\ result' = "bindErr"
               /\ UNCHANGED ln
    /\ UNCHANGED <<setupVars, phase, serveVars, slots, groups, cfg, server, listenErr,
                   osSignals, shutdowns, first, atSignal, input, served>>

\* The application calls ServeGracefully(l) or Serve(l) with a listener of its own.
CallServe(l, entry) ==
    /\ phase = "setup"
    /\ pc.main = "init"
    /\ ln' = l
    /\ pc' = [pc EXCEPT !.main = entry]
    /\ UNCHANGED <<setupVars, phase, serveVars, slots, groups, cfg, server, lnAddr,
                   listenErr, osSignals, result, shutdowns, first, atSignal, input, served>>

ServeGracefullyCall(l) == CallServe(l, "graceful")
ServeCall(l)           == CallServe(l, "serve")

\* atreugo.go:155-164
GracefulReadTimeout(gs, rt) == IF ~gs /\ rt <= 0 THEN defaultReadTimeout ELSE rt

\* atreugo.go:155-173: the flag, the read timeout, the two channels, the serve task.
GracefulStart ==
    /\ pc.main = "graceful"
    /\ cfg' = [cfg EXCEPT !.GracefulShutdown = TRUE,
                          !.ReadTimeout = IF ~cfg.GracefulShutdown /\ server.ReadTimeout <= 0
                                          THEN defaultReadTimeout ELSE @]
    /\ server' = [server EXCEPT
                    !.ReadTimeout = GracefulReadTimeout(cfg.GracefulShutdown, @)]
    /\ listenErr' = <<>>
    /\ osSignals' = <<>>
    /\ pc' = [main |-> "select", task |-> "serve"]
    /\ UNCHANGED <<setupVars, phase, serveVars, slots, groups, lnAddr, ln, result,
                   shutdowns, first, atSignal, input, served>>

\* atreugo.go:127-138: host and port the configuration gets from the listener.
AddrConfig(addr) ==
    LET sAddr == Split(addr, ":") IN
    [Host |-> sAddr[1],
     Port |-> IF Len(sAddr) > 1 THEN Atoi(sAddr[2]).val ELSE 0]

\* Atreugo.Serve, atreugo.go:121-145, up to the engine accepting connections.
Serve(who) ==
    /\ pc[who] = "serve"
    /\ phase \in {"setup", "serving", "stopped"}
    /\ LET addr == AddrString(ln) IN
          IF addr # lnAddr
          THEN /\ cfg' = [cfg EXCEPT !.Host = AddrConfig(addr).Host,
                                     !.Port = AddrConfig(addr).Port]
               /\ lnAddr' = addr
          ELSE UNCHANGED <<cfg, lnAddr>>
    /\ phase' = IF phase = "setup" THEN "serving" ELSE phase
    /\ pc' = [pc EXCEPT ![who] = "accepting"]
    /\ UNCHANGED <<setupVars, serveVars, slots, groups, server, ln, listenErr, osSignals,
                   result, shutdowns, first, atSignal, input, served>>

\* SIGINT / SIGTERM delivered to the channel signal.Notify registered (buffer of one).
Signal ==
    /\ pc.main \in {"select", "shutdown", "draining"}
    /\ phase \in {"setup", "serving", "draining", "stopped"}
    /\ osSignals = <<>>
    /\ osSignals' = <<"SIGTERM">>
    /\ first' = IF first = "none" THEN "signal" ELSE first
    /\ atSignal' = IF first = "none" THEN {q \in Requests : Open(q)} ELSE atSignal
    /\ UNCHANGED <<setupVars, phase, serveVars, slots, groups, cfg, server, lnAddr, ln,
                   listenErr, pc, result, shutdowns, input, served>>

\* The listener reports a permanent error: s.server.Serve(ln) returns it.
ListenFails(who) ==
    /\ pc[who] = "accepting"
    /\ phase = "serving"
    /\ phase' = "stopped"
    /\ IF who = "task"
       THEN /\ served' = "listenErr"
            /\ pc' = [pc EXCEPT ![who] = "sending"]
            /\ first' = IF first = "none" THEN "report" ELSE first
            /\ UNCHANGED result
       ELSE /\ result' = "listenErr"
            /\ pc' = [pc EXCEPT ![who] = "returned"]
            /\ UNCHANGED <<first, served>>
    /\ UNCHANGED <<setupVars, serveVars, slots, groups, cfg, server, lnAddr, ln, listenErr,
                   osSignals, shutdowns, atSignal, input>>

\* atreugo.go:175-179: the select takes a case whose channel holds a value.
Select_AlwaysShutdown ==
    /\ pc.main = "select"
    /\ listenErr # <<>> \/ osSignals # <<>>
    /\ pc' = [pc EXCEPT !.main = "shutdown"]
    /\ osSignals' = <<>>
    /\ UNCHANGED <<setupVars, phase, serveVars, slots, groups, cfg, server, lnAddr, ln,
                   listenErr, result, shutdowns, first, atSignal, input, served>>

Select ==
    /\ pc.main = "select"
    /\ \/ /\ listenErr # <<>>
          /\ result' = Head(listenErr)
          /\ listenErr' = Tail(listenErr)
          /\ pc' = [pc EXCEPT !.main = "returned"]
          /\ UNCHANGED osSignals
       \/ /\ osSignals # <<>>
          /\ osSignals' = Tail(osSignals)
          /\ pc' = [pc EXCEPT !.main = "shutdown"]
          /\ UNCHANGED <<listenErr, result>>
    /\ UNCHANGED <<setupVars, phase, serveVars, slots, groups, cfg, server, lnAddr, ln,
                   shutdowns, first, atSignal, input, served>>

\* atreugo.go:181: s.server.Shutdown() closes the listener the engine serves on and
\* then waits for the open connections; an engine that is not serving has nothing
\* to close and returns nil at once.
Shutdown ==
    /\ pc.main = "shutdown"
    /\ phase \in {"setup", "serving", "stopped"}
    /\ shutdowns' = shutdowns + 1
    /\ IF phase = "setup"
       THEN /\ result' = "nil"
            /\ pc' = [pc EXCEPT !.main = "returned"]
            /\ UNCHANGED phase
       ELSE \E closed \in BOOLEAN :
              IF closed
              THEN /\ phase' = IF phase = "serving" THEN "draining" ELSE phase
                   /\ pc' = [pc EXCEPT !.main = "draining"]
                   /\ UNCHANGED result
              ELSE /\ result' = "closeErr"
                   /\ pc' = [pc EXCEPT !.main = "returned"]
                   /\ phase' = "stopped"
    /\ UNCHANGED <<setupVars, serveVars, slots, groups, cfg, server, lnAddr, ln, listenErr,
                   osSignals, first, atSignal, input, served>>

\* Shutdown returns nil once no connection is open; atreugo.go:185-188.
ShutdownReturns ==
    /\ pc.main = "draining"
    /\ phase \in {"draining", "stopped"}
    /\ \A q \in Requests : ~Open(q)
    /\ result' = "nil"
    /\ pc' = [pc EXCEPT !.main = "returned"]
    /\ phase' = "stopped"
    /\ UNCHANGED <<setupVars, serveVars, slots, groups, cfg, server, lnAddr, ln, listenErr,
                   osSignals, shutdowns, first, atSignal, input, served>>

\* The listener was closed by Shutdown: s.server.Serve(ln) of the task returns nil.
ServeReturns ==
    /\ pc.task = "accepting"
    /\ pc.main \in {"draining", "returned"}
    /\ phase \in {"draining", "stopped"}
    /\ served' = "nil"
    /\ pc' = [pc EXCEPT !.task = "sending"]
    /\ UNCHANGED <<setupVars, phase, serveVars, slots, groups, cfg, server, lnAddr, ln,
                   listenErr, osSignals, result, shutdowns, first, atSignal, input>>

\* atreugo.go:166: `listenErr := make(chan error, 1)`
ListenErrCap == 1

\* A send on a channel completes when the buffer has room, or when a receiver is
\* waiting on the channel; the only receive of listenErr is the select of
\* atreugo.go:175-176.
CanSend_Unbuffered(ch, cap) == Len(ch) = 0 /\ pc.main = "select"

CanSend(ch, cap) == Len(ch) < cap \/ (Len(ch) = 0 /\ pc.main = "select")

\* atreugo.go:169: `listenErr <- s.Serve(ln)`, the send of what Serve returned.
SendListenErr ==
    /\ pc.task = "sending"
    /\ CanSend(listenErr, ListenErrCap)
    /\ listenErr' = Append(listenErr, served)
    /\ pc' = [pc EXCEPT !.task = "returned"]
    /\ UNCHANGED <<setupVars, phase, serveVars, slots, groups, cfg, server, lnAddr, ln,
                   osSignals, result, shutdowns, first, atSignal, input, served>>

RegisterAtreugo ==
    \E m \in Methods :
        \/ AtreugoPath(m, "view")
        \/ AtreugoTimeoutPath(m, "view")
        \/ AtreugoNetHTTPPath(m)

\* A server built on the Router API (router.go), one request in flight.
Next ==
    \/ RouterUseBefore
    \/ RouterUseAfter
    \/ RegisterRouter
    \/ StartServe
    \/ Dispatch("q1")

Spec == Init /\ [][Next]_vars

\* A server built on the Atreugo API (atreugo.go), requests in flight concurrently.
NextAtreugo ==
    \/ AtreugoUseBefore
    \/ AtreugoUseAfter
    \/ RegisterAtreugo
    \/ StartServe
    \/ \E q \in Requests : Dispatch(q)

SpecAtreugo == Init /\ [][NextAtreugo]_vars

\* A server with a group router: middlewares on the root router, routes on both.
RegisterGroup ==
    \E r \in Routers, m \in Methods :
        \/ RouterPath(r, m, "view")
        \/ \E f \in FiltersInputs : RouterPathWithFilters(r, m, "view", f)
        \/ RouterTimeoutPath(r, m, "view")

NextGroup ==
    \/ RouterUseBefore
    \/ RouterUseAfter
    \/ NewGroupPath
    \/ RegisterGroup
    \/ StartServe
    \/ Dispatch("q1")

SpecGroup == Init /\ [][NextGroup]_vars

\* A server whose routes all run under a timeout wrapper, with an engine that admits
\* one wrapped dispatcher at a time (Config.Fasthttp.Concurrency = 1).
InitCap == InitDispatch /\ InitLife(Config(FALSE, 0, 80, 1))

RegisterTimeout ==
    \E m \in Methods :
        \/ RouterTimeoutPath("root", m, "view")
        \/ \E f \in FiltersInputs : RouterTimeoutPathWithFilters("root", m, "view", f)
        \/ \E c \in TimeoutCodes : RouterTimeoutWithCodePath("root", m, "view", c)
        \/ \E f \in FiltersInputs, c \in TimeoutCodes :
                RouterTimeoutWithCodePathWithFilters("root", m, "view", f, c)

NextCap ==
    \/ RegisterTimeout
    \/ StartServe
    \/ \E q \in Requests : Dispatch(q)

SpecCap == InitCap /\ [][NextCap]_vars

\* A server built by New from any configuration and run through ListenAndServe, Serve
\* or ServeGracefully, with one request and the signals of the operating system.
InitServe == InitDispatch /\ \E c \in CfgInputs : InitLife(c)

RegisterServe ==
    \/ AtreugoPath(<<"G", "E", "T">>, "view")
    \/ AtreugoTimeoutPath(<<"G", "E", "T">>, "view")

NextServe ==
    \/ RegisterServe
    \/ ListenAndServe
    \/ \E l \in Listeners : ServeGracefullyCall(l)
    \/ \E l \in Listeners : ServeCall(l)
    \/ GracefulStart
    \/ \E who \in {"main", "task"} : Serve(who)
    \/ Signal
    \/ \E who \in {"main", "task"} : ListenFails(who)
    \/ Select
    \/ Shutdown
    \/ ShutdownReturns
    \/ ServeReturns
    \/ SendListenErr
    \/ Dispatch("q1")

SpecServe == InitServe /\ [][NextServe]_vars

\* The Go scheduler runs every goroutine that can take a step: a dispatcher whose
\* middlewares and view return goes on to its next statement.
Fairness == \A q \in Requests : WF_vars(DispatcherStep(q))

SpecCapLive == SpecCap /\ Fairness

\* The serve task is a goroutine of its own: once its send can complete, it does.
FairSend == WF_vars(SendListenErr)

SpecServeLive == SpecServe /\ FairSend

\* ===================================================================== claims
Rt(q)          == routes[req[q].route]
StageLog(q, st) == SelectSeq(req[q].log, LAMBDA e : e.stage = st)
Fns(l)         == [i \in 1..Len(l) |-> l[i].fn]
LastOf(l)      == l[Len(l)]
Failed(l)      == l # <<>> /\ LastOf(l).err \notin {"nil", "panic"}
AllNil(l)      == \A i \in 1..Len(l) : l[i].err = "nil"
IsPrefix(l, chain) == Len(l) <= Len(chain) /\ Fns(l) = SubSeq(chain, 1, Len(l))
Errors(q)      == SelectSeq(req[q].log, LAMBDA e : e.err \notin {"nil", "panic"})

\* C1: when the before-middleware at position i is the first to return an error, the
\* middlewares before it ran once each in order, nothing after position i ran, neither
\* the view nor any after-middleware ran, and the response status is that
\* middleware's code.
C1_BeforeErrorStopsRequest ==
    \A q \in Requests :
        LET bl == StageLog(q, "before") IN
        Failed(bl) =>
            /\ IsPrefix(bl, BeforeChain(Rt(q)))
            /\ AllNil(SubSeq(bl, 1, Len(bl) - 1))
            /\ StageLog(q, "view") = <<>>
            /\ StageLog(q, "after") = <<>>
            /\ req[q].pc \in {"finish", "done"}
            /\ req[q].statusCode = LastOf(bl).code
            /\ req[q].pc = "done" => req[q].resp.status = LastOf(bl).code
            /\ (req[q].pc = "done" /\ Rt(q).wrap = "none") =>
                  req[q].caller.status = LastOf(bl).code

C1_Witness ==
    \E q \in Requests :
        /\ req[q].pc = "done"
        /\ Failed(StageLog(q, "before"))
        /\ Len(StageLog(q, "before")) >= 2
        /\ Len(StageLog(q, "before")) < Len(BeforeChain(Rt(q)))
        /\ Len(AfterChain(Rt(q))) > 0

\* C2: when every before-middleware returns a nil error, the view is invoked exactly
\* once, right after the whole before-chain.
C2_ViewOnceAfterBefore ==
    \A q \in Requests :
        LET bl == StageLog(q, "before") IN
        (/\ req[q].pc \in {"after", "finish", "done", "panicked"}
         /\ AllNil(bl)
         /\ Len(bl) = Len(BeforeChain(Rt(q)))) =>
            /\ Fns(bl) = BeforeChain(Rt(q))
            /\ Len(StageLog(q, "view")) = 1
            /\ req[q].log[Len(bl) + 1].stage = "view"

C2_Witness ==
    \E q \in Requests :
        /\ req[q].pc = "done"
        /\ AllNil(StageLog(q, "before"))
        /\ Len(StageLog(q, "before")) >= 2
        /\ Len(StageLog(q, "view")) = 1

\* C3: when the before-chain succeeds and the view returns an error, no
\* after-middleware runs and the response status is 500, whatever status the view
\* itself had set.
C3_ViewErrorIs500 ==
    \A q \in Requests :
        LET vl == StageLog(q, "view") IN
        (vl # <<>> /\ vl[1].err = "boom") =>
            /\ StageLog(q, "after") = <<>>
            /\ req[q].pc \in {"finish", "done"}
            /\ req[q].statusCode = StatusInternalServerError
            /\ req[q].pc = "done" => req[q].resp.status = StatusInternalServerError

C3_Witness ==
    \E q \in Requests :
        /\ req[q].pc = "done"
        /\ StageLog(q, "view") # <<>>
        /\ StageLog(q, "view")[1].err = "boom"
        /\ Len(AfterChain(Rt(q))) > 0
        /\ Len(StageLog(q, "before")) > 0

\* C4: when the before-chain and the view succeed, the after-middlewares run in
\* registered order from the first; an error at position j stops the chain and its
\* (statusCode, error) is the request's final result; without an error all of them run.
C4_AfterChainInOrder ==
    \A q \in Requests :
        LET vl == StageLog(q, "view")
            al == StageLog(q, "after")
        IN  (/\ req[q].pc \in {"finish", "done", "panicked"}
             /\ vl # <<>> /\ vl[1].err = "nil") =>
                /\ IsPrefix(al, AfterChain(Rt(q)))
                /\ AllNil(SubSeq(al, 1, Len(al) - 1))
                /\ Failed(al) =>
                      /\ req[q].err = LastOf(al).err
                      /\ req[q].statusCode = LastOf(al).code
                      /\ req[q].pc = "done" =>
                            /\ req[q].resp.status = LastOf(al).code
                            /\ req[q].resp.body = LastOf(al).err
                /\ (AllNil(al) /\ req[q].pc # "panicked") =>
                      /\ Fns(al) = AfterChain(Rt(q))
                      /\ req[q].err = "nil"

C4_Witness ==
    \E q \in Requests :
        /\ req[q].pc = "done"
        /\ Failed(StageLog(q, "after"))
        /\ Len(StageLog(q, "after")) < Len(AfterChain(Rt(q)))

\* C5: when a stage returns an error, the final response carries exactly that error's
\* message and the resolved status (the middleware's code, 500 for the view) and
\* nothing written earlier; one error is reported per request.
C5_ErrorResponse ==
    \A q \in Requests :
        req[q].pc = "done" =>
            /\ Len(Errors(q)) <= 1
            /\ Len(Errors(q)) = 1 =>
                  /\ req[q].resp =
                        [status |-> IF Errors(q)[1].stage = "view"
                                    THEN StatusInternalServerError ELSE Errors(q)[1].code,
                         body   |-> Errors(q)[1].err,
                         hdr    |-> {}]
                  /\ req[q].errWrites = 1
                  /\ Rt(q).wrap = "none" =>
                        req[q].caller = [status |-> req[q].resp.status,
                                         body   |-> Errors(q)[1].err]

C5_Witness ==
    \E q \in Requests :
        /\ req[q].pc = "done"
        /\ Failed(StageLog(q, "after"))
        /\ Len(StageLog(q, "before")) > 0

\* C6: only a non-nil error stops a chain or overrides the status: a middleware that
\* returns a non-zero status with a nil error is followed by the rest of its chain, and
\* a request without any error ends with the response the view wrote, status 200.
C6_OnlyErrorsOverride ==
    \A q \in Requests :
        /\ \A st \in {"before", "after"} :
              LET l     == StageLog(q, st)
                  chain == IF st = "before" THEN BeforeChain(Rt(q)) ELSE AfterChain(Rt(q))
              IN  \A j \in 1..Len(l) :
                      (l[j].err = "nil" /\ j < Len(chain)) => Len(l) > j
        /\ (req[q].pc = "done" /\ Errors(q) = <<>>) =>
              /\ req[q].resp.status = StatusOK
              /\ req[q].resp.body = "ok"
              /\ req[q].errWrites = 0
              /\ req[q].resp.hdr = {e.fn : e \in {req[q].log[i] : i \in 1..Len(req[q].log)}}
                                      \ {"view"}

C6_Witness ==
    \E q \in Requests :
        /\ req[q].pc = "done"
        /\ Errors(q) = <<>>
        /\ \E j \in 1..(Len(req[q].log) - 1) :
              req[q].log[j].code # 0 /\ req[q].log[j].err = "nil"

\* C7: every RequestCtx a dispatcher acquired is released exactly once on every exit
\* path: normal return, errors, and a panic inside a middleware or the view.
C7_ReleasedOnEveryExit ==
    \A q \in Requests :
        /\ req[q].released <= req[q].acquired
        /\ req[q].acquired <= 1
        /\ req[q].pc \in {"done", "panicked"} =>
              (req[q].acquired = 1 /\ req[q].released = 1)

Holds(q) == req[q].acquired > req[q].released

\* C8: no RequestCtx is bound to two requests in flight: requests holding a context
\* hold distinct ones, each bound to its own request and out of the pool, and a
\* pooled context refers to no request.

C8_NoSharedContext ==
    /\ \A q1, q2 \in Requests :
          (q1 # q2 /\ Holds(q1) /\ Holds(q2)) => req[q1].ctx # req[q2].ctx
    /\ \A q \in Requests :
          Holds(q) => (bound[req[q].ctx] = q /\ req[q].ctx \notin pool)
    /\ \A c \in pool : bound[c] = "none"

C8_Witness ==
    \E q1, q2 \in Requests :
        /\ q1 # q2
        /\ Holds(q1) /\ Holds(q2)
        /\ req[q1].pc \in {"view", "after"}
        /\ req[q2].pc \in {"view", "after"}
        /\ nalloc = 2

\* C9: a route registered with PathWithFilters runs, before the view, exactly the
\* router's global before-list followed by filters.Before and, after the view,
\* filters.After followed by the global after-list.
C9_ChainsAsRegistered ==
    \A q \in Requests :
        LET bl == StageLog(q, "before")
            al == StageLog(q, "after")
        IN  /\ (req[q].pc \in {"view", "after", "finish", "done"} /\ AllNil(bl)) =>
                  Fns(bl) = Rt(q).gBefore \o Rt(q).fBefore
            /\ (req[q].pc \in {"finish", "done"} /\ AllNil(al)
                  /\ StageLog(q, "view") # <<>> /\ req[q].err = "nil") =>
                  Fns(al) = Rt(q).fAfter \o Rt(q).gAfter

\* C10: a registration with a method that is not upper-case faults and adds no
\* route, so every route the router holds has an upper-case method.
C10_OnlyUpperCaseRoutes ==
    \A i \in 1..Len(routes) : routes[i].method = ToUpper(routes[i].method)
\* Request q was answered by its timeout wrapper.
TimedOut(q) ==
    /\ req[q].route # 0
    /\ Rt(q).wrap = "timeout"
    /\ req[q].answered
    /\ req[q].caller = [status |-> Rt(q).tcode, body |-> TimeoutMsg]

\* C11: when the duration of a timeout-wrapped route elapses before its dispatcher
\* has completed, the caller gets the configured status (408, or the code given at
\* registration) with the configured message, and no later step of the dispatcher
\* changes the response the caller got.
C11_TimeoutResponseStands ==
    [][\A q \in Requests :
          /\ (~req[q].answered /\ req'[q].answered /\ req'[q].pc \notin {"done", "rejected"}) =>
                /\ req'[q].caller = [status |-> routes[req'[q].route].tcode,
                                     body |-> TimeoutMsg]
                /\ routes[req'[q].route].tcode \in {StatusRequestTimeout} \cup TimeoutCodes
          /\ req[q].answered => req'[q].caller = req[q].caller]_vars

C11_Witness ==
    \E q \in Requests :
        /\ req[q].pc = "done"
        /\ TimedOut(q)
        /\ Rt(q).tcode \in TimeoutCodes
        /\ Errors(q) # <<>>
        /\ req[q].resp.status # req[q].caller.status

\* C12: a request answered by its timeout wrapper goes on in the background and,
\* unless a middleware or the view panics, ends with its RequestCtx released and
\* back in the pool.
C12_TimedOutReleases ==
    \A q \in Requests :
        (TimedOut(q) /\ req[q].pc # "done")
            ~> (\/ (req[q].pc = "done" /\ req[q].released = 1 /\ req[q].ctx \in pool)
                \/ phase = "crashed")

C12_Witness ==
    \E q \in Requests :
        /\ req[q].pc = "done"
        /\ TimedOut(q)
        /\ req[q].acquired = 1 /\ req[q].released = 1
        /\ req[q].ctx \in pool
        /\ Errors(q) = <<>>
        /\ Len(req[q].log) >= 3
\* Wrapped dispatchers that have been started and have not returned.
Wrapped(q) ==
    /\ req[q].route # 0
    /\ Rt(q).wrap = "timeout"
    /\ req[q].pc \in {"start", "before", "view", "after", "finish"}

WrappedCount == Cardinality({q \in Requests : Wrapped(q)})

\* C13: on timeout-wrapped routes no more wrapped dispatchers run at once than the
\* engine's concurrency cap; a request arriving with the cap reached is answered 429
\* at once, and neither a context nor its before-chain nor its view is touched.
C13_ConcurrencyCap ==
    /\ [](/\ WrappedCount <= ConcurrencyCap
          /\ \A q \in Requests :
                req[q].pc = "rejected" =>
                    /\ req[q].caller = [status |-> StatusTooManyRequests, body |-> TimeoutMsg]
                    /\ req[q].log = <<>>
                    /\ req[q].acquired = 0)
    /\ [][\A q \in Requests :
            (/\ req[q].pc = "idle" /\ req'[q].pc # "idle"
             /\ routes[req'[q].route].wrap = "timeout") =>
                (req'[q].pc = "rejected" <=> WrappedCount >= ConcurrencyCap)]_vars

C13_Witness ==
    \E q1, q2 \in Requests :
        /\ req[q1].pc = "rejected"
        /\ Wrapped(q2) /\ req[q2].pc = "view"
        /\ WrappedCount = ConcurrencyCap
\* ServeGracefully has returned.
GracefulReturned == pc.task # "none" /\ result # "running"

\* C14 as claimed: whichever of the two events happened first decides: the serve
\* task's report is returned without a Shutdown, a signal leads to exactly one
\* Shutdown and to nil or Shutdown's error.
C14_FirstEventWins ==
    GracefulReturned =>
        /\ first = "report" => (result = "listenErr" /\ shutdowns = 0)
        /\ first = "signal" => (shutdowns = 1 /\ result \in {"nil", "closeErr"})

\* C14 as amended: the select takes an event that is pending when it runs. With only
\* the task's report pending ServeGracefully returns that result and never calls
\* Shutdown; with only a signal pending it calls Shutdown exactly once and returns
\* nil after the drain, or Shutdown's error; with both pending either case is taken.
C14_SelectTakesPending ==
    /\ [](/\ shutdowns <= 1
          /\ GracefulReturned =>
                \/ shutdowns = 0 /\ result = "listenErr" /\ pc.task = "returned"
                \/ shutdowns = 1 /\ result \in {"nil", "closeErr"})
    /\ [][/\ (pc.main = "select" /\ pc'.main # "select" /\ osSignals = <<>>) =>
                (pc'.main = "returned" /\ result' = Head(listenErr) /\ shutdowns' = 0)
          /\ (pc.main = "select" /\ pc'.main # "select" /\ listenErr = <<>>) =>
                (pc'.main = "shutdown" /\ result' = "running")
          /\ (pc.main = "shutdown" /\ pc'.main # "shutdown") => shutdowns' = shutdowns + 1
          /\ (pc.main = "draining" /\ pc'.main # "draining") => result' = "nil"]_vars

C14_Witness ==
    /\ GracefulReturned
    /\ first = "signal"
    /\ shutdowns = 1
    /\ result = "nil"
    /\ phase = "stopped"
    /\ pc.task = "returned"

\* C15: ServeGracefully returns nil after a signal only when every request that was
\* in flight at the signal has completed its dispatcher.
C15_CleanOnlyAfterDrain ==
    (GracefulReturned /\ result = "nil" /\ shutdowns = 1) =>
        \A q \in atSignal : req[q].pc = "done"

\* Position of a phase in Constructed, Listening, Draining, Stopped.
LifeRank(p) ==
    CASE p = "setup" -> 0 [] p = "serving" -> 1 [] p = "draining" -> 2 [] OTHER -> 3

\* C16: once Shutdown has been called on a signal, the engine is never listening
\* again and no new request reaches a dispatcher; the lifecycle only moves forward.
C16_NoServingAfterShutdown ==
    [][/\ LifeRank(phase') >= LifeRank(phase)
       /\ shutdowns >= 1 =>
             /\ phase' # "serving"
             /\ \A q \in Requests : req[q].pc = "idle" => req'[q].pc = "idle"]_vars

\* The server serves with graceful shutdown: configured so at New, or ServeGracefully
\* has started its serve task.
ServesGracefully == input.GracefulShutdown \/ pc.task # "none"

\* C17: whenever the server serves with graceful shutdown the engine's read timeout
\* is positive: the default, in the engine and in the configuration, when the
\* application set none, and the application's value when it set a positive one.
C17_ReadTimeoutForced ==
    ServesGracefully =>
        /\ cfg.GracefulShutdown
        /\ server.ReadTimeout > 0
        /\ input.ReadTimeout <= 0 =>
              (server.ReadTimeout = defaultReadTimeout /\ cfg.ReadTimeout = defaultReadTimeout)
        /\ input.ReadTimeout > 0 =>
              (server.ReadTimeout = input.ReadTimeout /\ cfg.ReadTimeout = input.ReadTimeout)

C17_Witness ==
    /\ pc.task = "accepting"
    /\ ~input.GracefulShutdown
    /\ input.ReadTimeout <= 0
    /\ server.ReadTimeout = defaultReadTimeout
    /\ phase = "serving"

\* C18: Serve(ln) with a listener whose address differs from the recorded one leaves
\* the listener's host and port in the configuration, for every form of address;
\* with the recorded address Host and Port are unchanged.
C18_ConfigFollowsListener ==
    [][\A who \in {"main", "task"} :
          (pc[who] = "serve" /\ pc'[who] = "accepting") =>
              IF AddrString(ln) # lnAddr
              THEN cfg'.Host = ln.host /\ cfg'.Port = ln.port
              ELSE cfg'.Host = cfg.Host /\ cfg'.Port = cfg.Port]_vars
StageRank(st) == CASE st = "before" -> 1 [] st = "view" -> 2 [] OTHER -> 3

\* C19: the stages of one request run one after the other in the order acquire,
\* before-chain, view, after-chain, error write, release: the calls are logged in
\* that order with one view at most, a stage starts only when the one before has
\* returned, nothing is called before the context is acquired and nothing after it
\* is released.
C19_StagesInOrder ==
    /\ [](\A q \in Requests :
            LET l == req[q].log IN
            /\ \A i, j \in 1..Len(l) : i < j => StageRank(l[i].stage) <= StageRank(l[j].stage)
            /\ Len(StageLog(q, "view")) <= 1
            /\ l # <<>> => req[q].acquired = 1
            /\ req[q].pc = "before" => (req[q].acquired = 1 /\ l = <<>>)
            /\ req[q].pc = "view" =>
                  (AllNil(l) /\ Fns(l) = BeforeChain(Rt(q)) /\ StageLog(q, "before") = l)
            /\ req[q].pc = "after" =>
                  (AllNil(l) /\ LastOf(l).stage = "view" /\ StageLog(q, "after") = <<>>)
            /\ req[q].errWrites <= 1
            /\ req[q].errWrites = 1 => req[q].released = 1
            /\ req[q].released = 1 => req[q].pc = "done")
    /\ [][\A q \in Requests :
            /\ req[q].released = 1 => req'[q].log = req[q].log
            /\ req[q].acquired = 0 => req'[q].log = <<>>]_vars

C19_Witness ==
    \E q \in Requests :
        /\ req[q].pc = "done"
        /\ req[q].released = 1
        /\ StageLog(q, "before") # <<>>
        /\ StageLog(q, "view") # <<>>
        /\ Failed(StageLog(q, "after"))
        /\ req[q].errWrites = 1
\* C20: the middlewares the root router got from UseBefore / UseAfter run on every
\* route of the server, those of a group router from NewGroupPath included: a
\* request whose chains pass runs the root's before-list first and its after-list last.
C20_GlobalMiddlewaresEverywhere ==
    \A q \in Requests :
        LET bl == Fns(StageLog(q, "before"))
            al == Fns(StageLog(q, "after"))
        IN  /\ (req[q].pc \in {"view", "after", "finish", "done"}
                  /\ AllNil(StageLog(q, "before"))) =>
                  /\ Len(bl) >= Len(Rt(q).rootBefore)
                  /\ SubSeq(bl, 1, Len(Rt(q).rootBefore)) = Rt(q).rootBefore
            /\ (req[q].pc \in {"finish", "done"} /\ AllNil(StageLog(q, "after"))
                  /\ StageLog(q, "view") # <<>> /\ req[q].err = "nil") =>
                  /\ Len(al) >= Len(Rt(q).rootAfter)
                  /\ SubSeq(al, Len(al) - Len(Rt(q).rootAfter) + 1, Len(al)) = Rt(q).rootAfter
\* The middlewares of list l are all among the calls fns.
AllRan(l, fns) == \A i \in 1..Len(l) : \E j \in 1..Len(fns) : fns[j] = l[i]

\* C21: a request runs the global middleware lists as they stand when serving
\* begins: every middleware its router (or the server) got from UseBefore / UseAfter
\* before serving started runs on every route, whether the route was registered
\* before or after that call.
C21_ListsAsAtServingStart ==
    \A q \in Requests :
        /\ (req[q].pc \in {"view", "after", "finish", "done"}
              /\ AllNil(StageLog(q, "before"))) =>
              AllRan(Elems(heap, lists[Rt(q).owner].before), Fns(StageLog(q, "before")))
        /\ (req[q].pc \in {"finish", "done"} /\ AllNil(StageLog(q, "after"))
              /\ StageLog(q, "view") # <<>> /\ req[q].err = "nil") =>
              AllRan(Elems(heap, lists[Rt(q).owner].after), Fns(StageLog(q, "after")))
\* A middleware or the view of request q panicked.
Panicked(q) == req[q].log # <<>> /\ LastOf(req[q].log).err = "panic"

\* C22: a panic inside a view or a middleware is caught and turned into an error
\* response for that request: the dispatcher goes on to its error write and release,
\* and the server keeps serving.
C22_PanicContained ==
    /\ phase # "crashed"
    /\ \A q \in Requests :
          Panicked(q) =>
              /\ req[q].pc \in {"finish", "done"}
              /\ req[q].err # "nil"
              /\ req[q].pc = "done" => req[q].resp.status = StatusInternalServerError
\* C23: the route-specific filters of a registered route stay the Filters it was
\* registered with, whatever is registered on the same Router afterwards: the filter
\* part of its before-chain and of its after-chain is unchanged, and so are the
\* Filters values the callers passed.
C23_FiltersKept ==
    /\ \A i \in 1..Len(routes) :
          LET b == Elems(heap, routes[i].before)
              a == Elems(heap, routes[i].after)
          IN  routes[i].owner \in Routers =>
                /\ SubSeq(b, Len(routes[i].gBefore) + 1, Len(b)) = routes[i].fBefore
                /\ SubSeq(a, 1, Len(routes[i].fAfter)) = routes[i].fAfter
    /\ \A f \in FiltersInputs :
          /\ Elems(heap, f.Before) = Elems(CallerHeap, f.Before)
          /\ Elems(heap, f.After) = Elems(CallerHeap, f.After)
\* C24: the serve task never blocks forever on reporting its result. When Serve has
\* returned to it, the channel has room for its one send, and the send completes,
\* on the listener-error path and on the signal path, also when ServeGracefully has
\* already returned and nobody receives.
C24_SendCompletes ==
    /\ [](/\ Len(listenErr) <= ListenErrCap
          /\ pc.task = "sending" => Len(listenErr) < ListenErrCap)
    /\ (pc.task = "sending") ~> (pc.task = "returned")

C24_Witness ==
    /\ pc.task = "returned"
    /\ pc.main = "returned"
    /\ first = "signal"
    /\ shutdowns = 1
    /\ result = "nil"
    /\ served = "nil"
    /\ listenErr = <<"nil">>
====
